---- MODULE Spec2Model ----
(***************************************************************************)
(* OX (Tic-Tac-Toe), src/app.py: the board helpers, the three AI           *)
(* strategies and the Streamlit session.  One action is one run of the     *)
(* script (sidebar, AI opening move, grid), started by one user            *)
(* interaction.  Cells are indexed 0..8 as in the source.                  *)
(***************************************************************************)
EXTENDS Integers, FiniteSets, Sequences, TLC

\* Concluded rounds (X + O + TIE) after which no further move is explored.
MaxRounds == 1

\* Python's None where an index is expected (move_best, ai_idx).
NoMove == -1
\* Python's None where a mark is expected (check_winner).
NoMark == "None"

Marks == {"X", "O"}
Indices == 0..8
Modes == {"Human vs AI", "Human vs Human"}
Difficulties == {"Easy", "Normal", "Hard"}
EmptyBoard == [i \in Indices |-> ""]

Other(mark) == IF mark = "X" THEN "O" ELSE "X"

(***************************************************************************)
(* Helpers: game logic                                                     *)
(***************************************************************************)
WIN_LINES ==
  << <<0, 1, 2>>, <<3, 4, 5>>, <<6, 7, 8>>,
     <<0, 3, 6>>, <<1, 4, 7>>, <<2, 5, 8>>,
     <<0, 4, 8>>, <<2, 4, 6>> >>

\* A line is complete when its first cell is marked and all three are equal.
LineDone(board, k) ==
  /\ board[WIN_LINES[k][1]] # ""
  /\ board[WIN_LINES[k][1]] = board[WIN_LINES[k][2]]
  /\ board[WIN_LINES[k][2]] = board[WIN_LINES[k][3]]

\* The mark of the first complete line in the order of WIN_LINES, else None.
RECURSIVE check_winner_from(_, _)
check_winner_from(board, k) ==
  IF k > Len(WIN_LINES) THEN NoMark
  ELSE IF LineDone(board, k) THEN board[WIN_LINES[k][1]]
  ELSE check_winner_from(board, k + 1)

\* check_winner looking at the lines after the first one only.
check_winner_skips_first(board) == check_winner_from(board, 2)

check_winner(board) == check_winner_from(board, 1)

is_board_full(board) == \A i \in Indices : board[i] # ""

\* [i for i, v in enumerate(board) if v == ""]: the list of the empty cells,
\* in ascending order.
available_moves(board) ==
  SelectSeq(<<0, 1, 2, 3, 4, 5, 6, 7, 8>>, LAMBDA i : board[i] = "")

Count(board, mark) == Cardinality({i \in Indices : board[i] = mark})

\* X moves first, so the mark to move is X exactly when the counts are equal.
Mover(board) == IF Count(board, "X") = Count(board, "O") THEN "X" ELSE "O"

\* The boards in which X has as many marks as O, or one more.
LegalBoards ==
  {b \in [Indices -> {"X", "O", ""}] :
     Count(b, "X") - Count(b, "O") \in {0, 1}}

\* The AI functions write into the list they are given (board[m] = mark,
\* board[m] = ""), so a call is modelled by the value it returns together
\* with the board it leaves behind.
Returned(value, board) == [ret |-> value, board |-> board]

(***************************************************************************)
(* Minimax for Hard AI                                                     *)
(***************************************************************************)
Max2(a, b) == IF a >= b THEN a ELSE b
\* min taking the larger of the two scores.
Min2_takes_larger(a, b) == IF a >= b THEN a ELSE b
Min2(a, b) == IF a <= b THEN a ELSE b

\* The for loop of one branch of minimax from the k-th cell of moves on:
\* board[m] = mark; score = minimax(...); board[m] = ""; best =
\* max/min(best, score).  board is the list as the iterations before left
\* it; sub[<<b, ai_mark>>] is the recursive call made with the list being b.
RECURSIVE minimax_loop(_, _, _, _, _, _, _, _)
minimax_loop(board, ai_mark, human_mark, is_maximizing, sub, moves, k, best) ==
  IF k > Len(moves) THEN Returned(best, board)
  ELSE
    LET m == moves[k]
        placed == [board EXCEPT ![m] = IF is_maximizing THEN ai_mark ELSE human_mark]
        call == sub[<<placed, ai_mark>>]
        undone == [call.board EXCEPT ![m] = ""]
    IN minimax_loop(undone, ai_mark, human_mark, is_maximizing, sub, moves, k + 1,
                    IF is_maximizing THEN Max2(best, call.ret) ELSE Min2(best, call.ret))

\* minimax with the opponent's win scored 10 as well (the sign forgotten).
minimax_body_unsigned(board, ai_mark, human_mark, is_maximizing, sub) ==
  LET winner == check_winner(board) IN
  IF winner = ai_mark THEN Returned(10, board)
  ELSE IF winner = human_mark THEN Returned(10, board)
  ELSE IF is_board_full(board) THEN Returned(0, board)
  ELSE minimax_loop(board, ai_mark, human_mark, is_maximizing, sub,
                    available_moves(board), 1, IF is_maximizing THEN -999 ELSE 999)

\* The body of minimax, its recursive calls read from sub.
minimax_body(board, ai_mark, human_mark, is_maximizing, sub) ==
  LET winner == check_winner(board) IN
  IF winner = ai_mark THEN Returned(10, board)
  ELSE IF winner = human_mark THEN Returned(-10, board)
  ELSE IF is_board_full(board) THEN Returned(0, board)
  ELSE minimax_loop(board, ai_mark, human_mark, is_maximizing, sub,
                    available_moves(board), 1, IF is_maximizing THEN -999 ELSE 999)

\* The recursion of minimax, unfolded from the full boards up.  A layer holds
\* minimax(board, ai_mark, Other(ai_mark), Mover(board) = ai_mark) for the
\* legal boards with n marks, its recursive calls read from the layer of the
\* boards with n + 1 marks.  Every call made on a legal board has this
\* shape: best_move_minimax places ai_mark and passes False, and each level
\* places the mover's mark and negates the flag.
Marked(board) == Cardinality({i \in Indices : board[i] # ""})

\* (f @@ <<>> is the function f, held as a table rather than a rule.)
MinimaxLayer(n, sub) ==
  [key \in {b \in LegalBoards : Marked(b) = n} \X Marks |->
     minimax_body(key[1], key[2], Other(key[2]), Mover(key[1]) = key[2], sub)]
  @@ <<>>

MinimaxAt9 == MinimaxLayer(9, <<>>)
MinimaxAt8 == MinimaxLayer(8, MinimaxAt9)
MinimaxAt7 == MinimaxLayer(7, MinimaxAt8)
MinimaxAt6 == MinimaxLayer(6, MinimaxAt7)
MinimaxAt5 == MinimaxLayer(5, MinimaxAt6)
MinimaxAt4 == MinimaxLayer(4, MinimaxAt5)
MinimaxAt3 == MinimaxLayer(3, MinimaxAt4)
MinimaxAt2 == MinimaxLayer(2, MinimaxAt3)
MinimaxAt1 == MinimaxLayer(1, MinimaxAt2)
MinimaxAt0 == MinimaxLayer(0, MinimaxAt1)

MinimaxTable ==
  << MinimaxAt0, MinimaxAt1, MinimaxAt2, MinimaxAt3, MinimaxAt4,
     MinimaxAt5, MinimaxAt6, MinimaxAt7, MinimaxAt8, MinimaxAt9 >>

\* minimax by plain recursion, for the calls the layers do not hold.
RECURSIVE minimax_direct(_, _, _, _)
minimax_direct(board, ai_mark, human_mark, is_maximizing) ==
  minimax_body(board, ai_mark, human_mark, is_maximizing,
               [key \in [Indices -> {"X", "O", ""}] \X {ai_mark} |->
                  minimax_direct(key[1], ai_mark, human_mark, ~is_maximizing)])

\* The layers hold the call when the board is legal and is_maximizing tells
\* whether ai_mark is the mark to move.
minimax(board, ai_mark, human_mark, is_maximizing) ==
  LET x == Count(board, "X")
      o == Count(board, "O")
  IN IF /\ human_mark = Other(ai_mark)
        /\ \/ x = o /\ is_maximizing = (ai_mark = "X")
           \/ x = o + 1 /\ is_maximizing = (ai_mark = "O")
       THEN MinimaxTable[x + o + 1][<<board, ai_mark>>]
       ELSE minimax_direct(board, ai_mark, human_mark, is_maximizing)

\* The loop of best_move_minimax with score >= best_score: the last of the
\* equally scored moves is kept.
RECURSIVE best_move_loop_last(_, _, _, _, _, _)
best_move_loop_last(board, ai_mark, moves, k, best_score, move_best) ==
  IF k > Len(moves) THEN Returned(move_best, board)
  ELSE
    LET m == moves[k]
        call == minimax([board EXCEPT ![m] = ai_mark], ai_mark, Other(ai_mark), FALSE)
        undone == [call.board EXCEPT ![m] = ""]
    IN IF call.ret >= best_score
         THEN best_move_loop_last(undone, ai_mark, moves, k + 1, call.ret, m)
         ELSE best_move_loop_last(undone, ai_mark, moves, k + 1, best_score, move_best)

best_move_minimax_last(board, ai_mark) ==
  best_move_loop_last(board, ai_mark, available_moves(board), 1, -999, NoMove)

\* The loop of best_move_minimax from the k-th cell of moves on, with the
\* running best_score and move_best: board[m] = ai_mark; score =
\* minimax(...); board[m] = "".
RECURSIVE best_move_loop(_, _, _, _, _, _)
best_move_loop(board, ai_mark, moves, k, best_score, move_best) ==
  IF k > Len(moves) THEN Returned(move_best, board)
  ELSE
    LET m == moves[k]
        call == minimax([board EXCEPT ![m] = ai_mark], ai_mark, Other(ai_mark), FALSE)
        undone == [call.board EXCEPT ![m] = ""]
    IN IF call.ret > best_score
         THEN best_move_loop(undone, ai_mark, moves, k + 1, call.ret, m)
         ELSE best_move_loop(undone, ai_mark, moves, k + 1, best_score, move_best)

best_move_minimax(board, ai_mark) ==
  best_move_loop(board, ai_mark, available_moves(board), 1, -999, NoMove)

(***************************************************************************)
(* Normal AI (rule-based)                                                  *)
(***************************************************************************)
\* find_winning_move returning from inside the loop without board[m] = "".
RECURSIVE find_winning_from_no_undo(_, _, _, _)
find_winning_from_no_undo(board, mark, moves, k) ==
  IF k > Len(moves) THEN Returned(NoMove, board)
  ELSE
    LET m == moves[k]
        placed == [board EXCEPT ![m] = mark]
    IN IF check_winner(placed) = mark
         THEN Returned(m, placed)
         ELSE find_winning_from_no_undo([placed EXCEPT ![m] = ""], mark, moves, k + 1)

find_winning_move_no_undo(board, mark) ==
  find_winning_from_no_undo(board, mark, available_moves(board), 1)

\* The loop of find_winning_move from the k-th cell of moves on: the first
\* cell where placing mark makes check_winner return mark, else None; the
\* placement is taken back on both paths.
RECURSIVE find_winning_from(_, _, _, _)
find_winning_from(board, mark, moves, k) ==
  IF k > Len(moves) THEN Returned(NoMove, board)
  ELSE
    LET m == moves[k]
        placed == [board EXCEPT ![m] = mark]
    IN IF check_winner(placed) = mark
         THEN Returned(m, [placed EXCEPT ![m] = ""])
         ELSE find_winning_from([placed EXCEPT ![m] = ""], mark, moves, k + 1)

find_winning_move(board, mark) ==
  find_winning_from(board, mark, available_moves(board), 1)

\* best_move_normal taking the centre before looking for a block.
best_move_normal_centre_first(board, ai_mark) ==
  LET human_mark == Other(ai_mark)
      win == find_winning_move(board, ai_mark)
      block == find_winning_move(win.board, human_mark)
      b == block.board
      corners == {i \in {0, 2, 6, 8} : b[i] = ""}
      sides == {i \in {1, 3, 5, 7} : b[i] = ""}
  IN IF win.ret # NoMove THEN {win}
     ELSE IF win.board[4] = "" THEN {Returned(4, win.board)}
     ELSE IF block.ret # NoMove THEN {block}
     ELSE IF corners # {} THEN {Returned(i, b) : i \in corners}
     ELSE IF sides # {} THEN {Returned(i, b) : i \in sides}
     ELSE {Returned(NoMove, b)}

\* best_move_normal without its last rule (the sides).
best_move_normal_no_sides(board, ai_mark) ==
  LET human_mark == Other(ai_mark)
      win == find_winning_move(board, ai_mark)
      block == find_winning_move(win.board, human_mark)
      b == block.board
      corners == {i \in {0, 2, 6, 8} : b[i] = ""}
  IN IF win.ret # NoMove THEN {win}
     ELSE IF block.ret # NoMove THEN {block}
     ELSE IF b[4] = "" THEN {Returned(4, b)}
     ELSE IF corners # {} THEN {Returned(i, b) : i \in corners}
     ELSE {Returned(NoMove, b)}

\* What best_move_normal can return: random.choice is any element.
best_move_normal(board, ai_mark) ==
  LET human_mark == Other(ai_mark)
      win == find_winning_move(board, ai_mark)
      block == find_winning_move(win.board, human_mark)
      b == block.board
      corners == {i \in {0, 2, 6, 8} : b[i] = ""}
      sides == {i \in {1, 3, 5, 7} : b[i] = ""}
  IN IF win.ret # NoMove THEN {win}
     ELSE IF block.ret # NoMove THEN {block}
     ELSE IF b[4] = "" THEN {Returned(4, b)}
     ELSE IF corners # {} THEN {Returned(i, b) : i \in corners}
     ELSE IF sides # {} THEN {Returned(i, b) : i \in sides}
     ELSE {Returned(NoMove, b)}

(***************************************************************************)
(* Easy AI (random)                                                        *)
(***************************************************************************)
\* best_move_easy choosing among all cells, not only the empty ones.
best_move_easy_any_cell(board, ai_mark) == {Returned(i, board) : i \in Indices}

best_move_easy(board, ai_mark) ==
  LET moves == available_moves(board)
  IN IF moves # <<>> THEN {Returned(moves[k], board) : k \in 1..Len(moves)}
     ELSE {Returned(NoMove, board)}

\* What the call can return: an index (or None), and the board it leaves.
get_ai_move(board, ai_mark, difficulty) ==
  IF difficulty = "Hard" THEN {best_move_minimax(board, ai_mark)}
  ELSE IF difficulty = "Normal" THEN best_move_normal(board, ai_mark)
  ELSE best_move_easy(board, ai_mark)

(***************************************************************************)
(* Session state                                                           *)
(***************************************************************************)
\* st.session_state, and what the last run of the script was started by and
\* did: last.op names the interaction, last.accepted tells whether a cell
\* click reached the placement in human_move, last.ai_called whether the run
\* called get_ai_move, last.ai_live whether each board it was called on had
\* an empty cell and no complete line, last.ai_empty whether each index it
\* returned was an empty cell of the board it was called on.
VARIABLES session_state, last

vars == <<session_state, last>>

InitialSession ==
  [board |-> EmptyBoard,
   current_player |-> "X",
   scores |-> [k \in {"X", "O", "TIE"} |-> 0],
   game_over |-> FALSE,
   mode |-> "Human vs AI",
   difficulty |-> "Hard",
   human_mark |-> "X"]

ScoreSum(s) == s.scores["X"] + s.scores["O"] + s.scores["TIE"]

\* The round reset leaving current_player as it is.
ResetRound_keeps_turn(s) ==
  [s EXCEPT !.board = EmptyBoard, !.game_over = FALSE]

\* The round reset leaving game_over as it is.
ResetRound_keeps_over(s) ==
  [s EXCEPT !.board = EmptyBoard, !.current_player = "X"]

\* board = [""] * 9; current_player = "X"; game_over = False
ResetRound(s) ==
  [s EXCEPT !.board = EmptyBoard, !.current_player = "X", !.game_over = FALSE]

(***************************************************************************)
(* Sidebar controls.  mode, diff and mark_pick are the widget values of    *)
(* this run, button the sidebar button clicked in it (or "none").          *)
(***************************************************************************)
SidebarMode(s, mode) ==
  IF mode # s.mode THEN ResetRound([s EXCEPT !.mode = mode]) ELSE s

SidebarDifficulty(s, diff) ==
  IF diff # s.difficulty THEN ResetRound([s EXCEPT !.difficulty = diff]) ELSE s

SidebarMark(s, mark_pick) ==
  IF mark_pick # s.human_mark THEN ResetRound([s EXCEPT !.human_mark = mark_pick]) ELSE s

SidebarNewRound(s, button) ==
  IF button = "new_round" THEN ResetRound(s) ELSE s

\* Reset Score zeroing X and O and forgetting TIE.
SidebarResetScore_keeps_tie(s, button) ==
  IF button = "reset_score"
    THEN ResetRound([s EXCEPT !.scores["X"] = 0, !.scores["O"] = 0])
    ELSE s

SidebarResetScore(s, button) ==
  IF button = "reset_score"
    THEN ResetRound([s EXCEPT !.scores = [k \in {"X", "O", "TIE"} |-> 0]])
    ELSE s

Sidebar(s, mode, diff, mark_pick, button) ==
  LET s1 == SidebarMode(s, mode)
      s2 == IF s1.mode = "Human vs AI"
              THEN SidebarMark(SidebarDifficulty(s1, diff), mark_pick)
              ELSE s1
  IN SidebarResetScore(SidebarNewRound(s2, button), button)

(***************************************************************************)
(* Game mechanics.  A piece of the script ends in a session state st,     *)
(* having made the calls of get_ai_move in calls: for each the board it    *)
(* was given and the index it returned.                                    *)
(***************************************************************************)
Ran(s, calls) == [st |-> s, calls |-> calls]

\* conclude_if_end testing the full board before the winner.
conclude_if_end_full_first(s) ==
  IF is_board_full(s.board)
    THEN [ret |-> TRUE,
          st |-> [s EXCEPT !.game_over = TRUE, !.scores["TIE"] = @ + 1]]
  ELSE IF check_winner(s.board) # NoMark
    THEN [ret |-> TRUE,
          st |-> [s EXCEPT !.game_over = TRUE, !.scores[check_winner(s.board)] = @ + 1]]
  ELSE [ret |-> FALSE, st |-> s]

\* conclude_if_end without its first test: only the full board ends a round.
conclude_if_end_only_full(s) ==
  IF is_board_full(s.board)
    THEN [ret |-> TRUE,
          st |-> [s EXCEPT !.game_over = TRUE, !.scores["TIE"] = @ + 1]]
  ELSE [ret |-> FALSE, st |-> s]

\* ret is the value returned, st the session state afterwards.
conclude_if_end(s) ==
  LET winner == check_winner(s.board) IN
  IF winner # NoMark
    THEN [ret |-> TRUE,
          st |-> [s EXCEPT !.game_over = TRUE, !.scores[winner] = @ + 1]]
  ELSE IF is_board_full(s.board)
    THEN [ret |-> TRUE,
          st |-> [s EXCEPT !.game_over = TRUE, !.scores["TIE"] = @ + 1]]
  ELSE [ret |-> FALSE, st |-> s]

\* The turn flip with both branches yielding the current mark.
NextTurn_same_mark(s) == s

\* current_player = "O" if current_player == "X" else "X"
NextTurn(s) == [s EXCEPT !.current_player = Other(s.current_player)]

\* The AI reply without the turn flip after the AI's mark.
ai_reply_keeps_turn(s) ==
  IF s.mode = "Human vs AI"
    THEN LET ai_mark == Other(s.human_mark) IN
         IF s.current_player = ai_mark /\ ~s.game_over
           THEN {LET given == [s EXCEPT !.board = call.board]
                 IN Ran(IF call.ret # NoMove
                          THEN conclude_if_end([given EXCEPT !.board[call.ret] = ai_mark]).st
                          ELSE given,
                        {[board |-> s.board, ret |-> call.ret]})
                 : call \in get_ai_move(s.board, ai_mark, s.difficulty)}
           ELSE {Ran(s, {})}
    ELSE {Ran(s, {})}

\* The AI reply at the end of human_move: what it can end in.  get_ai_move
\* is given the session's own list, so the mark goes on the board as the
\* call left it.
ai_reply(s) ==
  IF s.mode = "Human vs AI"
    THEN LET ai_mark == Other(s.human_mark) IN
         IF s.current_player = ai_mark /\ ~s.game_over
           THEN {LET given == [s EXCEPT !.board = call.board]
                 IN Ran(IF call.ret # NoMove
                          THEN LET c == conclude_if_end([given EXCEPT !.board[call.ret] = ai_mark])
                               IN IF c.ret THEN c.st ELSE NextTurn(c.st)
                          ELSE given,
                        {[board |-> s.board, ret |-> call.ret]})
                 : call \in get_ai_move(s.board, ai_mark, s.difficulty)}
           ELSE {Ran(s, {})}
    ELSE {Ran(s, {})}

\* human_move without its first test (game_over).
human_move_no_over_test(s, cell_index) ==
  IF s.board[cell_index] = ""
    THEN LET c == conclude_if_end([s EXCEPT !.board[cell_index] = s.current_player])
         IN IF c.ret THEN {Ran(c.st, {})} ELSE ai_reply(NextTurn(c.st))
  ELSE {Ran(s, {})}

\* human_move placing X whoever's turn it is.
human_move_always_x(s, cell_index) ==
  IF s.game_over THEN {Ran(s, {})}
  ELSE IF s.board[cell_index] = ""
    THEN LET c == conclude_if_end([s EXCEPT !.board[cell_index] = "X"])
         IN IF c.ret THEN {Ran(c.st, {})} ELSE ai_reply(NextTurn(c.st))
  ELSE {Ran(s, {})}

\* What human_move(cell_index) can end in.
human_move(s, cell_index) ==
  IF s.game_over THEN {Ran(s, {})}
  ELSE IF s.board[cell_index] = ""
    THEN LET c == conclude_if_end([s EXCEPT !.board[cell_index] = s.current_player])
         IN IF c.ret THEN {Ran(c.st, {})} ELSE ai_reply(NextTurn(c.st))
  ELSE {Ran(s, {})}

\* The opening move without current_player = "O".
auto_first_move_keeps_turn(s) ==
  IF /\ s.mode = "Human vs AI"
     /\ s.human_mark = "O"
     /\ s.board = EmptyBoard
     /\ ~s.game_over
    THEN {LET given == [s EXCEPT !.board = call.board]
          IN Ran(IF call.ret # NoMove THEN [given EXCEPT !.board[call.ret] = "X"] ELSE given,
                 {[board |-> s.board, ret |-> call.ret]})
          : call \in get_ai_move(s.board, "X", s.difficulty)}
    ELSE {Ran(s, {})}

\* Auto-first move by AI when human chooses "O" and board is empty.
auto_first_move(s) ==
  IF /\ s.mode = "Human vs AI"
     /\ s.human_mark = "O"
     /\ s.board = EmptyBoard
     /\ ~s.game_over
    THEN {LET given == [s EXCEPT !.board = call.board]
          IN Ran(IF call.ret # NoMove
                   THEN [given EXCEPT !.board[call.ret] = "X", !.current_player = "O"]
                   ELSE given,
                 {[board |-> s.board, ret |-> call.ret]})
          : call \in get_ai_move(s.board, "X", s.difficulty)}
    ELSE {Ran(s, {})}

\* The guard without its test of the cell: a click on an occupied cell passes.
click_passes_occupied(s, idx) ==
  s.mode = "Human vs AI" => s.current_player = s.human_mark

\* The guard of the cell's form: clicked and mark == "", and in Human vs AI
\* only the human's turn.
click_passes(s, idx) ==
  /\ s.board[idx] = ""
  /\ s.mode = "Human vs AI" => s.current_player = s.human_mark

\* The grid: the submit button of cell idx was clicked (idx = None: no cell).
grid(s, idx) ==
  IF idx # NoMove /\ click_passes(s, idx) THEN human_move(s, idx) ELSE {Ran(s, {})}

\* One run of the script from top to bottom.
script_run(s, mode, diff, mark_pick, button, idx) ==
  UNION {{Ran(g.st, a.calls \cup g.calls) : g \in grid(a.st, idx)}
         : a \in auto_first_move(Sidebar(s, mode, diff, mark_pick, button))}

\* Whether the click of cell idx, in the state the grid is rendered from,
\* reaches the placement of human_move.
placement_reached(s, idx) ==
  \E a \in auto_first_move(s) : click_passes(a.st, idx) /\ ~a.st.game_over

\* The record of a run started by op.
Log(op, accepted, calls) ==
  [op |-> op,
   accepted |-> accepted,
   ai_called |-> calls # {},
   ai_live |-> \A c \in calls : ~is_board_full(c.board) /\ check_winner(c.board) = NoMark,
   ai_empty |-> \A c \in calls : c.ret \in Indices /\ c.board[c.ret] = ""]

(***************************************************************************)
(* User interactions, each one run of the script                           *)
(***************************************************************************)
Init ==
  /\ session_state = InitialSession
  /\ last = Log("init", FALSE, {})

\* The mode selectbox is changed.  On coming back to Human vs AI the radio
\* "You play as" is built anew: it shows its default X (index=0), or the
\* mark it showed before.
ChangeMode(mode) ==
  /\ mode # session_state.mode
  /\ \E mark_pick \in {"X", session_state.human_mark} :
       \E run \in script_run(session_state, mode, session_state.difficulty,
                             mark_pick, "none", NoMove) :
         /\ session_state' = run.st
         /\ last' = Log("mode", FALSE, run.calls)

ChangeDifficulty(diff) ==
  /\ session_state.mode = "Human vs AI"
  /\ diff # session_state.difficulty
  /\ \E run \in script_run(session_state, session_state.mode, diff,
                           session_state.human_mark, "none", NoMove) :
       /\ session_state' = run.st
       /\ last' = Log("difficulty", FALSE, run.calls)

ChangeHumanMark(mark_pick) ==
  /\ session_state.mode = "Human vs AI"
  /\ mark_pick # session_state.human_mark
  /\ \E run \in script_run(session_state, session_state.mode,
                           session_state.difficulty, mark_pick, "none", NoMove) :
       /\ session_state' = run.st
       /\ last' = Log("human_mark", FALSE, run.calls)

NewRound ==
  \E run \in script_run(session_state, session_state.mode,
                        session_state.difficulty, session_state.human_mark,
                        "new_round", NoMove) :
    /\ session_state' = run.st
    /\ last' = Log("new_round", FALSE, run.calls)

ResetScore ==
  \E run \in script_run(session_state, session_state.mode,
                        session_state.difficulty, session_state.human_mark,
                        "reset_score", NoMove) :
    /\ session_state' = run.st
    /\ last' = Log("reset_score", FALSE, run.calls)

\* The submit button of cell idx is clicked.  Rounds are played until
\* MaxRounds of them are concluded; clicks on a finished round stay possible.
ClickCell(idx) ==
  /\ session_state.game_over \/ ScoreSum(session_state) < MaxRounds
  /\ \E run \in script_run(session_state, session_state.mode,
                           session_state.difficulty, session_state.human_mark,
                           "none", idx) :
       /\ session_state' = run.st
       /\ last' = Log("click", placement_reached(session_state, idx), run.calls)

Next ==
  \/ \E mode \in Modes : ChangeMode(mode)
  \/ \E diff \in Difficulties : ChangeDifficulty(diff)
  \/ \E mark_pick \in Marks : ChangeHumanMark(mark_pick)
  \/ NewRound
  \/ ResetScore
  \/ \E idx \in Indices : ClickCell(idx)

Spec == Init /\ [][Next]_vars

(***************************************************************************)
(* The AI strategies on their own: get_ai_move is given every legal board, *)
(* for the mark to move and each difficulty, and the reply of human_move   *)
(* places what it returns.                                                 *)
(***************************************************************************)
\* X on cells 0 and 1 and nothing else, O to answer.
TwoInRow == [EmptyBoard EXCEPT ![0] = "X", ![1] = "X"]

\* The boards get_ai_move is given: the legal ones and TwoInRow.
AiBoards ==
  {b \in [Indices -> {"X", "O", ""}] : b \in LegalBoards \/ b = TwoInRow}

InitAI ==
  /\ \E b \in AiBoards, diff \in Difficulties :
       session_state = [InitialSession EXCEPT !.board = b,
                                              !.current_player = Mover(b),
                                              !.human_mark = Other(Mover(b)),
                                              !.difficulty = diff]
  /\ last = Log("init", FALSE, {})

AiReply ==
  \E run \in ai_reply(session_state) :
    /\ session_state' = run.st
    /\ last' = Log("ai_reply", FALSE, run.calls)

NextAI == AiReply

SpecAI == InitAI /\ [][NextAI]_vars

(***************************************************************************)
(* The AI against itself: from the empty board, and from the board with X  *)
(* on the centre alone, get_ai_move is applied for the mark to move, for   *)
(* each difficulty, and its index placed as the reply of human_move places *)
(* it, until the round is concluded.                                       *)
(***************************************************************************)
SelfStarts == {EmptyBoard, [EmptyBoard EXCEPT ![4] = "X"]}

InitSelf ==
  /\ \E b \in SelfStarts, diff \in Difficulties :
       session_state = [InitialSession EXCEPT !.board = b,
                                              !.current_player = Mover(b),
                                              !.human_mark = Other(Mover(b)),
                                              !.difficulty = diff]
  /\ last = Log("init", FALSE, {})

\* The AI's mark is the mark to move.
SelfPlay ==
  /\ ~session_state.game_over
  /\ \E run \in ai_reply([session_state EXCEPT
                             !.human_mark = Other(session_state.current_player)]) :
       /\ session_state' = run.st
       /\ last' = Log("self_play", FALSE, run.calls)

NextSelf == SelfPlay

\* Play goes on while the round is open: weak fairness of NextSelf, which is
\* enabled exactly while game_over is False (get_ai_move has a cell to
\* return on every board of an open round).
SpecSelf ==
  /\ InitSelf
  /\ [][NextSelf]_vars
  /\ ([]<>session_state.game_over \/ []<><<NextSelf>>_vars)

(***************************************************************************)
(* One round played to its end: the round every setting of the sidebar     *)
(* starts, then clicks on the grid only                                    *)
(***************************************************************************)
\* The run that follows a choice of mode, difficulty and mark: the round is
\* reset and, when the AI is X, the AI has opened.
InitPlay ==
  \E mode \in Modes, diff \in Difficulties, mark_pick \in Marks :
    \E run \in script_run(InitialSession, mode, diff, mark_pick, "none", NoMove) :
      /\ session_state = run.st
      /\ last = Log("init", FALSE, run.calls)

\* A click that reaches the placement of human_move.
LegalMove == \E idx \in Indices : ClickCell(idx) /\ last'.accepted

NextPlay == \E idx \in Indices : ClickCell(idx)

\* Legal moves keep being submitted while the round lasts.
SpecPlay ==
  /\ InitPlay
  /\ [][NextPlay]_vars
  /\ ([]<>session_state.game_over \/ []<><<LegalMove>>_vars)

(***************************************************************************)
(* Properties                                                              *)
(***************************************************************************)
\* The marks that own a complete line of a board.
LineOwners(b) == {b[WIN_LINES[k][1]] : k \in {j \in 1..Len(WIN_LINES) : LineDone(b, j)}}

\* The cells in which two boards differ.
ChangedCells(b1, b2) == {i \in Indices : b1[i] # b2[i]}

VersusHard(s) == s.mode = "Human vs AI" /\ s.difficulty = "Hard"

\* C1: against the Hard AI no reachable board holds a complete line of the
\* human's mark, and no step that ends in Human vs AI / Hard raises the
\* score bucket of the human's mark.
C1_HardNeverLoses ==
  /\ [](VersusHard(session_state)
          => session_state.human_mark \notin LineOwners(session_state.board))
  /\ [][VersusHard(session_state')
          => session_state'.scores[session_state'.human_mark]
               <= session_state.scores[session_state'.human_mark]]_vars

\* A round against the Hard AI was played to its end.
C1_Witness ==
  /\ VersusHard(session_state)
  /\ session_state.game_over
  /\ last.op = "click" /\ last.accepted
  /\ LineOwners(session_state.board) = {Other(session_state.human_mark)}

\* C2: a cell click raises X + O + TIE by exactly 1 if and only if it is
\* accepted and game_over goes from FALSE to TRUE in it, otherwise it changes
\* no counter; the bucket raised is that of the one mark owning a complete
\* line, and TIE only on a full board without a complete line; and no step
\* taken while game_over is TRUE raises a counter.
C2_ScoreOncePerRound ==
  [][LET s == session_state
         t == session_state'
         concluded == ~s.game_over /\ t.game_over
         owners == LineOwners(t.board)
     IN /\ last'.op = "click" =>
             /\ (ScoreSum(t) = ScoreSum(s) + 1) <=> (last'.accepted /\ concluded)
             /\ ~concluded => t.scores = s.scores
             /\ concluded =>
                  IF owners # {}
                    THEN \E w \in owners :
                           /\ owners = {w}
                           /\ t.scores = [s.scores EXCEPT ![w] = @ + 1]
                    ELSE /\ is_board_full(t.board)
                         /\ t.scores = [s.scores EXCEPT !["TIE"] = @ + 1]
        /\ s.game_over => \A k \in DOMAIN s.scores : t.scores[k] <= s.scores[k]]_vars

\* An accepted move filled the board without completing a line: a tie.
C2_Witness ==
  /\ last.op = "click" /\ last.accepted
  /\ session_state.game_over
  /\ session_state.scores["TIE"] = 1
  /\ LineOwners(session_state.board) = {}

\* The conditions under which a click of cell idx is to be rejected.
Rejectable(s, idx) ==
  \/ s.game_over
  \/ s.board[idx] # ""
  \/ s.mode = "Human vs AI" /\ s.current_player # s.human_mark

\* C3: a click of a cell while game_over is TRUE, or of an occupied cell, or
\* (in Human vs AI) while it is not the human's turn, leaves the whole
\* session state as it was (a click step that changes the session state is
\* the click of no such cell); and while game_over is TRUE the board changes
\* only in a run started by a reset (a settings change, New Round or Reset
\* Score).
C3_RejectedMovesAtomic ==
  [][/\ (last'.op = "click" /\ session_state' # session_state) =>
          \A idx \in Indices : Rejectable(session_state, idx) => ~ClickCell(idx)
     /\ (session_state.game_over /\ session_state'.board # session_state.board)
          => last'.op \in {"mode", "difficulty", "human_mark", "new_round", "reset_score"}]_vars

\* A cell was clicked on a finished round that still has empty cells, and
\* the click did not reach the placement.
C3_Witness ==
  /\ last.op = "click" /\ ~last.accepted
  /\ session_state.game_over
  /\ ~is_board_full(session_state.board)

\* C4: in Human vs Human an accepted move hands the turn to the other mark,
\* unless it ends the round: then game_over is TRUE and current_player stays
\* the mark that just moved.
C4_TurnAlternation ==
  [][(session_state.mode = "Human vs Human" /\ last'.op = "click" /\ last'.accepted)
       => IF session_state'.game_over
            THEN session_state'.current_player = session_state.current_player
            ELSE session_state'.current_player # session_state.current_player]_vars

\* Human vs Human, O has just completed a line and the turn stays with O.
C4_Witness ==
  /\ session_state.mode = "Human vs Human"
  /\ last.op = "click" /\ last.accepted
  /\ session_state.game_over
  /\ session_state.current_player = "O"
  /\ LineOwners(session_state.board) = {"O"}

\* C5: in Human vs AI an accepted human move on cell i changes cell i from
\* empty to the human's mark; if that ends the round (a complete line or a
\* full board) no other cell changes, otherwise exactly one more cell changes,
\* from empty to the AI's mark.
C5_OneReplyPerMove ==
  [][(session_state.mode = "Human vs AI" /\ last'.op = "click" /\ last'.accepted)
       => LET s == session_state
              t == session_state'
              changed == ChangedCells(s.board, t.board)
          IN \E i \in changed :
               /\ s.board[i] = "" /\ t.board[i] = s.human_mark
               /\ LET mid == [s.board EXCEPT ![i] = s.human_mark]
                  IN IF LineOwners(mid) # {} \/ is_board_full(mid)
                       THEN changed = {i}
                       ELSE \E j \in changed :
                              /\ j # i
                              /\ s.board[j] = "" /\ t.board[j] = Other(s.human_mark)
                              /\ changed = {i, j}]_vars

\* Human vs AI: the human moved, the AI replied, and the round goes on.
C5_Witness ==
  /\ session_state.mode = "Human vs AI"
  /\ last.op = "click" /\ last.accepted
  /\ ~session_state.game_over
  /\ Marked(session_state.board) >= 4

\* The operations that discard the round and keep the score.
RoundResets == {"mode", "difficulty", "human_mark", "new_round"}

ZeroScores == [k \in {"X", "O", "TIE"} |-> 0]

\* The AI plays X and the human O.
AiOpens(s) == s.mode = "Human vs AI" /\ s.human_mark = "O"

\* The fresh round: nothing placed, X to move.
FreshRound(s) == s.board = EmptyBoard /\ s.current_player = "X" /\ ~s.game_over

\* The fresh round after the AI's opening move: one X, no O, O to move.
OpenedRound(s) ==
  /\ Count(s.board, "X") = 1 /\ Count(s.board, "O") = 0
  /\ s.current_player = "O"
  /\ ~s.game_over

\* C6 as stated: New Round and every change of mode, difficulty or human
\* mark yield an all-empty board, current_player = X and game_over = FALSE,
\* and leave the three counters unchanged.
C6_ResetYieldsEmptyBoard ==
  [][last'.op \in RoundResets
       => /\ FreshRound(session_state')
          /\ session_state'.scores = session_state.scores]_vars

\* C6, amended: New Round and every change of mode, difficulty or human mark
\* leave the three counters unchanged and game_over = FALSE, with an
\* all-empty board and current_player = X, except that in Human vs AI with
\* the human playing O the board holds the AI's opening X alone and
\* current_player = O.
C6_ResetStartsRound ==
  [][last'.op \in RoundResets
       => /\ session_state'.scores = session_state.scores
          /\ IF AiOpens(session_state')
               THEN OpenedRound(session_state')
               ELSE FreshRound(session_state')]_vars

\* New Round was pressed on a round that had been concluded (a counter is 1)
\* and the board is empty again.
C6_Witness ==
  /\ last.op = "new_round"
  /\ ScoreSum(session_state) = 1
  /\ FreshRound(session_state)

\* C7 as stated: Reset Score sets the three counters to 0 and yields an
\* all-empty board, current_player = X and game_over = FALSE.
C7_ResetScoreYieldsEmptyBoard ==
  [][last'.op = "reset_score"
       => /\ session_state'.scores = ZeroScores
          /\ FreshRound(session_state')]_vars

\* C7, amended: Reset Score sets the three counters to 0 and resets the
\* round: game_over = FALSE, with an all-empty board and current_player = X,
\* except that in Human vs AI with the human playing O the board holds the
\* AI's opening X alone and current_player = O.
C7_ResetScoreStartsRound ==
  [][last'.op = "reset_score"
       => /\ session_state'.scores = ZeroScores
          /\ IF AiOpens(session_state')
               THEN OpenedRound(session_state')
               ELSE FreshRound(session_state')]_vars

\* Reset Score was pressed with the human playing O against the Normal AI:
\* counters 0, and the round opened by the AI on the centre.
C7_Witness ==
  /\ last.op = "reset_score"
  /\ AiOpens(session_state)
  /\ session_state.difficulty = "Normal"
  /\ session_state.scores = ZeroScores
  /\ OpenedRound(session_state)
  /\ session_state.board = [EmptyBoard EXCEPT ![4] = "X"]

\* C8: in Human vs AI with the human playing O, every run started by a reset
\* (New Round, Reset Score, a settings change) ends with exactly one X and no
\* O on the board, current_player = O and game_over = FALSE, the counters
\* being those the reset leaves (0 after Reset Score, unchanged otherwise);
\* and no state of that configuration has an empty board, so no human move
\* is accepted before the opening move.
C8_AiOpeningMove ==
  /\ [](AiOpens(session_state) => session_state.board # EmptyBoard)
  /\ [][(last'.op \in RoundResets \cup {"reset_score"} /\ AiOpens(session_state'))
          => /\ OpenedRound(session_state')
             /\ session_state'.scores =
                  IF last'.op = "reset_score" THEN ZeroScores ELSE session_state.scores]_vars

\* New Round after a concluded round with the human playing O: the Hard AI
\* has opened on cell 0.
C8_Witness ==
  /\ last.op = "new_round"
  /\ AiOpens(session_state)
  /\ session_state.difficulty = "Hard"
  /\ ScoreSum(session_state) = 1
  /\ session_state.board = [EmptyBoard EXCEPT ![0] = "X"]

\* The empty cells of a board.
EmptyCells(b) == {i \in Indices : b[i] = ""}

\* The empty cells where placing mark completes a line of mark.
ImmediateWins(b, mark) ==
  {m \in EmptyCells(b) : mark \in LineOwners([b EXCEPT ![m] = mark])}

\* C9: whenever the Hard AI replies on a board on which its mark has a move
\* that completes a line at once, its reply completes a line: the round ends
\* in that run, won by the AI.
C9_FasterWins ==
  [][(VersusHard(session_state) /\ last'.op = "click" /\ last'.accepted)
       => LET s == session_state
              t == session_state'
              ai_mark == Other(s.human_mark)
          IN \A i \in Indices :
               (s.board[i] = "" /\ t.board[i] = s.human_mark)
                 => LET mid == [s.board EXCEPT ![i] = s.human_mark]
                    IN (/\ LineOwners(mid) = {}
                        /\ ~is_board_full(mid)
                        /\ ImmediateWins(mid, ai_mark) # {})
                         => /\ t.game_over
                            /\ LineOwners(t.board) = {ai_mark}]_vars

\* The value best_move_minimax gives the move to cell m.
MoveValue(b, ai_mark, m) ==
  minimax([b EXCEPT ![m] = ai_mark], ai_mark, Other(ai_mark), FALSE).ret

\* The empty cells whose value is the maximum over the empty cells.
BestMoves(b, ai_mark) ==
  LET value == [m \in EmptyCells(b) |-> MoveValue(b, ai_mark, m)] @@ <<>>
  IN {m \in DOMAIN value : \A n \in DOMAIN value : value[n] <= value[m]}

\* C10: on every board that is not full, best_move_minimax returns, for the
\* mark to move, the lowest-index cell among the empty cells of maximal
\* minimax value.
C10_LowestIndexTieBreak ==
  LET b == session_state.board
      ai_mark == Mover(b)
      best == BestMoves(b, ai_mark)
      move == best_move_minimax(b, ai_mark).ret
  IN ~is_board_full(b) => (move \in best /\ \A m \in best : move <= m)

\* The Hard AI has replied on a board where several cells shared the maximal
\* value, and the cell it took is not the highest of them.
C10_Witness ==
  /\ last.op = "ai_reply"
  /\ session_state.difficulty = "Hard"
  /\ \E c \in Indices :
       LET ai_mark == Other(session_state.human_mark)
           b == [session_state.board EXCEPT ![c] = ""]
       IN /\ session_state.board[c] = ai_mark
          /\ Mover(b) = ai_mark
          /\ best_move_minimax(b, ai_mark).ret = c
          /\ \E m \in BestMoves(b, ai_mark) : c < m

\* The indices best_move_normal can return.
NormalPicks(b, ai_mark) == {call.ret : call \in best_move_normal(b, ai_mark)}

\* C11: on a board with an empty cell and no complete line, for either mark
\* as the AI's, best_move_normal returns a cell that completes a line of the
\* AI's mark if there is one; otherwise a cell where the opponent would
\* complete a line, if there is one; otherwise 4 if the centre is empty;
\* otherwise any of the empty corners 0, 2, 6, 8; otherwise any of the empty
\* sides 1, 3, 5, 7.  On the board with X on 0 and 1 alone and the AI
\* playing O, best_move_normal and best_move_minimax both return 2.
C11_NormalPriorityChain ==
  LET b == session_state.board
  IN /\ (LineOwners(b) = {} /\ ~is_board_full(b)) =>
          \A ai_mark \in Marks :
            LET picks == NormalPicks(b, ai_mark)
                wins == ImmediateWins(b, ai_mark)
                blocks == ImmediateWins(b, Other(ai_mark))
                corners == {i \in {0, 2, 6, 8} : b[i] = ""}
                sides == {i \in {1, 3, 5, 7} : b[i] = ""}
            IN /\ picks # {}
               /\ IF wins # {} THEN picks \subseteq wins
                  ELSE IF blocks # {} THEN picks \subseteq blocks
                  ELSE IF b[4] = "" THEN picks = {4}
                  ELSE IF corners # {} THEN picks = corners
                  ELSE picks = sides
     /\ b = TwoInRow =>
          /\ NormalPicks(b, "O") = {2}
          /\ best_move_minimax(b, "O").ret = 2

\* The Normal AI, playing O, has answered X on 0 and 1 with its mark on 2.
C11_Witness ==
  /\ last.op = "ai_reply"
  /\ session_state.difficulty = "Normal"
  /\ session_state.human_mark = "X"
  /\ session_state.board = [TwoInRow EXCEPT ![2] = "O"]

\* Every call of minimax held in the layers leaves the board it was given.
MinimaxRestores ==
  \A n \in 1..Len(MinimaxTable) :
    \A key \in DOMAIN MinimaxTable[n] : MinimaxTable[n][key].board = key[1]

\* C12: for every board and every difficulty, get_ai_move leaves the board
\* cell for cell as it was given: find_winning_move (for either mark, on
\* both of its return paths), best_move_normal and best_move_easy (for
\* either mark as the AI's), best_move_minimax (for the mark to move) and
\* every call of minimax below it.
C12_AiLeavesBoard ==
  LET b == session_state.board
  IN /\ \A mark \in Marks :
          /\ find_winning_move(b, mark).board = b
          /\ \A diff \in {"Easy", "Normal"} :
               \A call \in get_ai_move(b, mark, diff) : call.board = b
     /\ \A call \in get_ai_move(b, Mover(b), "Hard") : call.board = b
     /\ MinimaxRestores

\* The Normal AI has replied with the winning cell find_winning_move found,
\* its return from inside the loop, and no other cell has changed: the
\* board holds the one complete line and one mark more than before.
C12_Witness ==
  /\ last.op = "ai_reply" /\ last.ai_called /\ last.ai_live
  /\ session_state.difficulty = "Normal"
  /\ session_state.game_over
  /\ LineOwners(session_state.board) = {Other(session_state.human_mark)}
  /\ Mover(session_state.board) = session_state.human_mark

\* C13: on every board of the session, conclude_if_end concludes the round
\* as a win for mark m (returns True, game_over set, the bucket of m raised
\* by 1) if and only if some line has its three cells equal to m, as a tie
\* (TIE raised by 1) if and only if no cell is empty and no line is
\* complete, and otherwise leaves it in progress (returns False, nothing
\* changed); and an accepted move after which the board is full with a
\* complete line of m raises the bucket of m and not TIE.
C13_OutcomeClassification ==
  /\ [](LET s == [session_state EXCEPT !.game_over = FALSE]
             c == conclude_if_end(s)
             owners == LineOwners(s.board)
         IN /\ \A m \in Marks :
                 (c.ret /\ c.st.game_over /\ c.st.scores = [s.scores EXCEPT ![m] = @ + 1])
                   <=> m \in owners
            /\ (c.ret /\ c.st.game_over /\ c.st.scores = [s.scores EXCEPT !["TIE"] = @ + 1])
                 <=> (is_board_full(s.board) /\ owners = {})
            /\ (~c.ret /\ c.st = s)
                 <=> (~is_board_full(s.board) /\ owners = {}))
  /\ [][(last'.op = "click" /\ last'.accepted /\ is_board_full(session_state'.board))
          => \A m \in LineOwners(session_state'.board) :
               /\ session_state'.scores[m] = session_state.scores[m] + 1
               /\ session_state'.scores["TIE"] = session_state.scores["TIE"]]_vars

\* An accepted move has filled the last empty cell and completed a line of
\* X with it: the round is X's, not a tie.
C13_Witness ==
  /\ last.op = "click" /\ last.accepted
  /\ is_board_full(session_state.board)
  /\ LineOwners(session_state.board) = {"X"}
  /\ session_state.game_over
  /\ session_state.scores = [ZeroScores EXCEPT !["X"] = 1]

\* C14: whenever a run of the script has called get_ai_move (in the reply
\* of human_move or for the opening move), each board it was called on had
\* an empty cell and no complete line, and each index returned was an empty
\* cell of that board, not None and not an occupied cell; the opening move
\* is asked for on the empty board.
C14_AiAskedOnLiveBoard ==
  /\ last.ai_called => (last.ai_live /\ last.ai_empty)
  /\ (last.ai_called /\ last.op # "click") =>
        (Marked(session_state.board) = 1 /\ AiOpens(session_state))

\* The Easy AI was asked for the last move of a round, on a board with one
\* empty cell, and took it: the board is full and the round a tie.
C14_Witness ==
  /\ last.op = "click" /\ last.accepted /\ last.ai_called
  /\ session_state.difficulty = "Easy"
  /\ session_state.human_mark = "O"
  /\ is_board_full(session_state.board)
  /\ LineOwners(session_state.board) = {}

\* The round is concluded as a tie: full board, no complete line.
TieReached(s) ==
  /\ s.game_over
  /\ is_board_full(s.board)
  /\ LineOwners(s.board) = {}

\* C15: from the empty board, and from the board with X on 4 alone and O to
\* move, best_move_minimax applied in turn for the mark to move always
\* brings the round to its end with a full board and no complete line; no
\* board on the way holds a complete line, and on each board of the open
\* round best_move_minimax returns an empty cell.
C15_HardSelfPlayTies ==
  /\ [](session_state.difficulty = "Hard" => LineOwners(session_state.board) = {})
  /\ []((session_state.difficulty = "Hard" /\ ~session_state.game_over)
          => best_move_minimax(session_state.board, session_state.current_player).ret
               \in EmptyCells(session_state.board))
  /\ (session_state.difficulty = "Hard" /\ session_state.board \in SelfStarts)
       ~> (session_state.difficulty = "Hard" /\ TieReached(session_state))

\* Hard against Hard from the empty board (the centre went to O) has ended
\* in a tie.
C15_Witness ==
  /\ last.op = "self_play"
  /\ session_state.difficulty = "Hard"
  /\ TieReached(session_state)
  /\ session_state.board[4] = "O"
  /\ session_state.scores = [ZeroScores EXCEPT !["TIE"] = 1]

\* C16: in every reachable state game_over is TRUE if and only if the board
\* has a complete line or no empty cell.
C16_TerminalFlagMatchesBoard ==
  session_state.game_over
    <=> (LineOwners(session_state.board) # {} \/ is_board_full(session_state.board))

\* A round won by O with empty cells left: game_over is TRUE.
C16_Witness ==
  /\ last.op = "click" /\ last.accepted
  /\ session_state.game_over
  /\ LineOwners(session_state.board) = {"O"}
  /\ ~is_board_full(session_state.board)

\* C17: in every reachable state the number of X cells minus the number of
\* O cells is 0 or 1, and while game_over is FALSE current_player is X
\* exactly when the two numbers are equal.
C17_MarkCount ==
  LET x == Count(session_state.board, "X")
      o == Count(session_state.board, "O")
  IN /\ x - o \in {0, 1}
     /\ ~session_state.game_over => (session_state.current_player = "X" <=> x = o)

\* Human vs Human in mid-round: three X, two O, O to move.
C17_Witness ==
  /\ session_state.mode = "Human vs Human"
  /\ last.op = "click" /\ last.accepted
  /\ ~session_state.game_over
  /\ Count(session_state.board, "X") = 3
  /\ Count(session_state.board, "O") = 2
  /\ session_state.current_player = "O"

\* C18: in Human vs AI, in every reachable state with game_over FALSE
\* current_player is the human's mark, so the guard of the cell form passes
\* for every empty cell.
C18_HumanNeverLockedOut ==
  (session_state.mode = "Human vs AI" /\ ~session_state.game_over)
    => /\ session_state.current_player = session_state.human_mark
       /\ \A idx \in EmptyCells(session_state.board) : click_passes(session_state, idx)

\* The human plays O against the AI, both have moved twice after the AI's
\* opening move, and it is the human's turn.
C18_Witness ==
  /\ session_state.mode = "Human vs AI"
  /\ session_state.human_mark = "O"
  /\ last.op = "click" /\ last.accepted
  /\ ~session_state.game_over
  /\ Marked(session_state.board) = 5
  /\ session_state.current_player = "O"

\* The lines of a board that are complete.
DoneLines(b) == {k \in 1..Len(WIN_LINES) : LineDone(b, k)}

\* C19: in every reachable state at most one of X and O owns a complete
\* line, and check_winner returns that mark whichever complete line comes
\* first in WIN_LINES (None when no line is complete).
C19_OneWinner ==
  LET owners == LineOwners(session_state.board)
  IN /\ Cardinality(owners) <= 1
     /\ IF owners = {} THEN check_winner(session_state.board) = NoMark
                       ELSE owners = {check_winner(session_state.board)}

\* One move has completed two lines of X at once.
C19_Witness ==
  /\ last.op = "click" /\ last.accepted
  /\ session_state.game_over
  /\ Cardinality(DoneLines(session_state.board)) = 2
  /\ LineOwners(session_state.board) = {"X"}

\* C20: every round terminates.  Each accepted move strictly increases the
\* number of occupied cells, a board of 9 marks has game_over = TRUE, and
\* when legal moves keep being submitted and nothing is reset game_over
\* eventually becomes TRUE, in both modes and for every difficulty.
C20_RoundTerminates ==
  /\ [][last'.op = "click" /\ last'.accepted
          => Marked(session_state'.board) > Marked(session_state.board)]_vars
  /\ [](Marked(session_state.board) = 9 => session_state.game_over)
  /\ <>session_state.game_over

\* A round of Human vs AI that an accepted click ended with the ninth mark,
\* placed by the AI's reply.
C20_Witness ==
  /\ last.op = "click" /\ last.accepted /\ last.ai_called
  /\ session_state.mode = "Human vs AI"
  /\ session_state.game_over
  /\ Marked(session_state.board) = 9
====
